---- MODULE Spec2Model ----
(***************************************************************************)
(* A model of palette/__init__.py: the Color object (canonical linear      *)
(* channels r, g, b, the alpha attribute, the workspace name and the cache *)
(* `spaces` of projections) and the ColorSpace handles it hands out.       *)
(*                                                                         *)
(* Numbers.  Python floats are modelled in fixed point: a channel or a     *)
(* coordinate x is the integer round(x * Scale).  rgb8 coordinates are the *)
(* plain integers 0..255 the code computes.  Every float operation of the  *)
(* source is the same operation here, rounded to the nearest unit.         *)
(***************************************************************************)
EXTENDS Integers, Sequences, FiniteSets, TLC

\* ------------------------------------------------------------------ bounds
\* The ColorSpace objects ever created (live in a cache or held stale).
MaxHandles == 3
\* The Color objects ever created (the first one, and results of lighter/darker).
MaxColors == 2
\* The operations applied in one run.
MaxOps == 3
\* The projection reads that may be nested before RecursionError is raised
\* (the interpreter's limit counts frames, about three to a read, and is 1000).
RecursionLimit == 6

\* ----------------------------------------------------------- fixed point
Max8 == 255
\* One unit is 1/Scale; Scale is a multiple of 255 and of 6.
Scale == Max8 * 16

\* a / b rounded to the nearest integer, b > 0 (a float division).
RoundDiv(a, b) == (2 * a + b) \div (2 * b)
\* Python 3 round(a / b): to the nearest integer, ties to the even one.
round(a, b) ==
    LET q == a \div b
        rem == a - q * b
    IN  IF 2 * rem < b THEN q
        ELSE IF 2 * rem > b THEN q + 1
        ELSE IF q % 2 = 0 THEN q ELSE q + 1

Max3(x, y, z) == IF x >= y /\ x >= z THEN x ELSE IF y >= z THEN y ELSE z
Min3(x, y, z) == IF x <= y /\ x <= z THEN x ELSE IF y <= z THEN y ELSE z
Min2(x, y) == IF x <= y THEN x ELSE y
Max2(x, y) == IF x >= y THEN x ELSE y

\* --------------------------------------------------------------- sRGB gamma
\* The knots (gamma-encoded value, linear value), in units, of the power-law
\* piece ((c + 0.055) / 1.055) ** 2.4: the threshold 0.04045 and the fifteen
\* encoded values j/15.  Between two knots the curve is the chord.
GammaKnots ==
    << <<165, 13>>, <<272, 23>>, <<544, 65>>, <<816, 135>>, <<1088, 236>>,
       <<1360, 371>>, <<1632, 542>>, <<1904, 753>>, <<2176, 1005>>,
       <<2448, 1300>>, <<2720, 1640>>, <<2992, 2027>>, <<3264, 2464>>,
       <<3536, 2950>>, <<3808, 3488>>, <<4080, 4080>> >>

\* The chord through knots i and i+1, from coordinate `from` to coordinate `to`.
Chord(i, x, from, to) ==
    LET p == GammaKnots[i]
        q == GammaKnots[i + 1]
    IN  p[to] + RoundDiv((x - p[from]) * (q[to] - p[to]), q[from] - p[from])

\* The segment of the knots holding x in coordinate `from` (the last one beyond).
Segment(x, from) ==
    IF x >= GammaKnots[Len(GammaKnots) - 1][from] THEN Len(GammaKnots) - 1
    ELSE CHOOSE i \in 1..(Len(GammaKnots) - 1) :
            /\ x < GammaKnots[i + 1][from]
            /\ \A j \in 1..(i - 1) : x >= GammaKnots[j + 1][from]

\* srgb getter's tx: 12.92 * c if c <= 0.0031308 else 1.055 * c ** (1/2.4) - 0.055
gamma_encode(c) ==
    IF c <= (31308 * Scale) \div 10000000
    THEN RoundDiv(1292 * c, 100)
    ELSE Chord(Segment(c, 2), c, 2, 1)

\* gamma_decode with the linear piece c / 12.92 on the whole range
gamma_decode_no_power(c) == RoundDiv(100 * c, 1292)

\* srgb setter's tx: c / 12.92 if c <= 0.04045 else ((c + 0.055) / 1.055) ** 2.4
gamma_decode(c) ==
    IF c <= (4045 * Scale) \div 100000
    THEN RoundDiv(100 * c, 1292)
    ELSE Chord(Segment(c, 1), c, 1, 2)

\* ----------------------------------------------------------------- colorsys
\* colorsys.rgb_to_hls
rgb_to_hls(r, g, b) ==
    LET maxc == Max3(r, g, b)
        minc == Min3(r, g, b)
        sumc == maxc + minc
        rangec == maxc - minc
        l == RoundDiv(sumc, 2)
        s == IF 2 * l <= Scale
             THEN RoundDiv(rangec * Scale, sumc)
             ELSE RoundDiv(rangec * Scale, 2 * Scale - maxc - minc)
        rc == RoundDiv((maxc - r) * Scale, rangec)
        gc == RoundDiv((maxc - g) * Scale, rangec)
        bc == RoundDiv((maxc - b) * Scale, rangec)
        h0 == IF r = maxc THEN bc - gc
              ELSE IF g = maxc THEN 2 * Scale + rc - bc
              ELSE 4 * Scale + gc - rc
    IN  IF minc = maxc THEN <<0, l, 0>>
        ELSE <<RoundDiv(h0, 6) % Scale, l, s>>

\* colorsys._v
hls_v(m1, m2, hue0) ==
    LET hue == hue0 % Scale
    IN  IF 6 * hue < Scale THEN m1 + RoundDiv((m2 - m1) * hue * 6, Scale)
        ELSE IF 2 * hue < Scale THEN m2
        ELSE IF 3 * hue < 2 * Scale
             THEN m1 + RoundDiv((m2 - m1) * (2 * Scale - 3 * hue) * 2, Scale)
        ELSE m1

\* colorsys.hls_to_rgb
hls_to_rgb(h, l, s) ==
    LET m2 == IF 2 * l <= Scale
              THEN RoundDiv(l * (Scale + s), Scale)
              ELSE l + s - RoundDiv(l * s, Scale)
        m1 == 2 * l - m2
    IN  IF s = 0 THEN <<l, l, l>>
        ELSE <<hls_v(m1, m2, h + Scale \div 3), hls_v(m1, m2, h),
               hls_v(m1, m2, h - Scale \div 3)>>

\* colorsys.rgb_to_yiq
rgb_to_yiq(r, g, b) ==
    LET y == RoundDiv(30 * r + 59 * g + 11 * b, 100)
        i == RoundDiv(74 * (r - y) - 27 * (b - y), 100)
        q == RoundDiv(48 * (r - y) + 41 * (b - y), 100)
    IN  <<y, i, q>>

\* colorsys.yiq_to_rgb clamps each result to [0, 1]
Clamp01(x) == IF x < 0 THEN 0 ELSE IF x > Scale THEN Scale ELSE x

\* colorsys.yiq_to_rgb
yiq_to_rgb(y, i, q) ==
    << Clamp01(y + RoundDiv(9469 * i + 6236 * q, 10000)),
       Clamp01(y - RoundDiv(2748 * i + 6357 * q, 10000)),
       Clamp01(y + RoundDiv(17090 * q - 11085 * i, 10000)) >>

\* ------------------------------------------------------------ the objects
\* The projection properties of Color, by the name of the decorated function.
Names == {"srgb", "linear_rgb", "rgb8", "hls", "hsl", "yiq"}
\* The values of `workspace` under which `rgb` reads a projection of the channels.
Workspaces == {"srgb", "linear_rgb"}

VARIABLES
    colors,   \* the Color objects: [r, g, b, a, workspace, spaces]
    heap,     \* the ColorSpace objects: [parent, name, axes, coords, attrs]
    last,     \* the operation of the last step, its arguments and its outcome
    nops      \* the number of operations applied so far

vars == <<colors, heap, last, nops>>

\* A world is the pair of object stores an operation reads and rewrites.
World == [colors |-> colors, heap |-> heap]


\* ColorSpace_init that records no parent
ColorSpace_init_no_parent(parent, name, coords) ==
    [parent |-> 0,
     attrs |-> [k \in {} |-> 0],
     name |-> name,
     axes |-> [i \in 1..Len(coords) |-> coords[i][1]],
     coords |-> [k \in {coords[i][1] : i \in 1..Len(coords)} |->
                    (CHOOSE p \in {coords[i] : i \in 1..Len(coords)} : p[1] = k)[2]]]

\* ColorSpace.__init__: parent, name, axes (the names in order), coords (the
\* dict); attrs is what else the instance __dict__ holds: nothing
ColorSpace_init(parent, name, coords) ==
    [parent |-> parent,
     attrs |-> [k \in {} |-> 0],
     name |-> name,
     axes |-> [i \in 1..Len(coords) |-> coords[i][1]],
     coords |-> [k \in {coords[i][1] : i \in 1..Len(coords)} |->
                    (CHOOSE p \in {coords[i] : i \in 1..Len(coords)} : p[1] = k)[2]]]

\* ColorSpace.__iter__ / tuple(self): the coordinates in axes order
ColorSpace_iter(cs) == [i \in 1..Len(cs.axes) |-> cs.coords[cs.axes[i]]]

\* zip("hls", values)
zip(axes, values) == [i \in 1..Len(axes) |-> <<axes[i], values[i]>>]

Ok(w, ret) == [w |-> w, err |-> "ok", ret |-> ret]
Raise(w, e) == [w |-> w, err |-> e, ret |-> 0]

RECURSIVE prop_get_at(_, _, _, _)
RECURSIVE rgb_get_at(_, _, _)
RECURSIVE space_f(_, _, _, _)

\* hsl_of that keeps the order (h, l, s)
hsl_of_unordered(hls) == hls

\* hsl getter: [hls[0], hls[2], hls[1]]
hsl_of(hls) == <<hls[1], hls[3], hls[2]>>

\* rgb_get_at that reads srgb whatever the workspace
rgb_get_at_srgb(w, c, depth) == prop_get_at(w, c, "srgb", depth)

\* Color.rgb getter, called with `depth` projection reads on the stack:
\* getattr(self, self.workspace)
rgb_get_at(w, c, depth) == prop_get_at(w, c, w.colors[c].workspace, depth)

\* The decorated functions srgb, linear_rgb, rgb8, hls, hsl, yiq: the list of
\* (axis, value) pairs of the projection; reading self.rgb or self.hls inside
\* goes through the cache and may fill it, and an error raised there passes
\* through.
space_f(w, c, name, depth) ==
    LET self == w.colors[c] IN
    CASE name = "srgb" ->
           Ok(w, << <<"r", gamma_encode(self.r)>>, <<"g", gamma_encode(self.g)>>,
                    <<"b", gamma_encode(self.b)>> >>)
      [] name = "linear_rgb" ->
           Ok(w, << <<"r", self.r>>, <<"g", self.g>>, <<"b", self.b>> >>)
      [] name = "rgb8" ->
           LET g == rgb_get_at(w, c, depth)
               rgb == g.w.heap[g.ret].coords
           IN  IF g.err # "ok" THEN g
               ELSE Ok(g.w, << <<"r", round(rgb["r"] * Max8, Scale)>>,
                               <<"g", round(rgb["g"] * Max8, Scale)>>,
                               <<"b", round(rgb["b"] * Max8, Scale)>> >>)
      [] name = "hls" ->
           LET g == rgb_get_at(w, c, depth)
               rgb == g.w.heap[g.ret].coords
           IN  IF g.err # "ok" THEN g
               ELSE Ok(g.w, zip(<<"h", "l", "s">>,
                                rgb_to_hls(rgb["r"], rgb["g"], rgb["b"])))
      [] name = "hsl" ->
           LET g == prop_get_at(w, c, "hls", depth)
               hls == ColorSpace_iter(g.w.heap[g.ret])
           IN  IF g.err # "ok" THEN g
               ELSE Ok(g.w, zip(<<"h", "s", "l">>, hsl_of(hls)))
      [] name = "yiq" ->
           LET g == rgb_get_at(w, c, depth)
               rgb == g.w.heap[g.ret].coords
           IN  IF g.err # "ok" THEN g
               ELSE Ok(g.w, zip(<<"y", "i", "q">>,
                                rgb_to_yiq(rgb["r"], rgb["g"], rgb["b"])))

\* colorspace(f).prop_get, called with `depth` projection reads on the stack:
\* the cached instance, else a new ColorSpace of f(self) stored under
\* f.__name__.  A call beyond the recursion limit raises RecursionError, which
\* passes through every caller, none of which has stored anything yet.
prop_get_at(w, c, name, depth) ==
    IF depth >= RecursionLimit THEN Raise(w, "RecursionError")
    ELSE IF name \in DOMAIN w.colors[c].spaces
    THEN Ok(w, w.colors[c].spaces[name])
    ELSE LET f == space_f(w, c, name, depth + 1)
             space == ColorSpace_init(c, name, f.ret)
             id == Len(f.w.heap) + 1
         IN  IF f.err # "ok" THEN Raise(w, f.err)
             ELSE Ok([colors |-> [f.w.colors EXCEPT ![c].spaces =
                                     [k \in DOMAIN @ \cup {name} |->
                                         IF k = name THEN id ELSE @[k]]],
                      heap |-> Append(f.w.heap, space)],
                     id)

\* rgb_get that reads srgb whatever the workspace
rgb_get_srgb(w, c) == prop_get_at(w, c, "srgb", 0)

\* x = color.rgb, from outside the class
rgb_get(w, c) == rgb_get_at(w, c, 0)

\* prop_get that replaces the cache by the one new entry
prop_get_single_entry(w, c, name) ==
    IF name \in DOMAIN w.colors[c].spaces
    THEN Ok(w, w.colors[c].spaces[name])
    ELSE LET f == space_f(w, c, name, 1)
             space == ColorSpace_init(c, name, f.ret)
             id == Len(f.w.heap) + 1
         IN  Ok([colors |-> [f.w.colors EXCEPT ![c].spaces = [k \in {name} |-> id]],
                 heap |-> Append(f.w.heap, space)],
                id)

\* x = color.<name>, from outside the class
prop_get(w, c, name) == prop_get_at(w, c, name, 0)

\* clamped_setter without the test against the upper limit
clamped_setter_no_upper(w, c, ch, v) ==
    IF v < 0
    THEN [w |-> w, err |-> "ValueError", ret |-> 0]
    ELSE [w |-> [w EXCEPT !.colors[c][ch] = v], err |-> "ok", ret |-> 0]

\* clamped_property(name, 0, 1).setter: reject v outside [lo, hi], else store it
clamped_setter(w, c, ch, v) ==
    IF v < 0 \/ v > Scale
    THEN Raise(w, "ValueError")
    ELSE Ok([w EXCEPT !.colors[c][ch] = v], 0)

\* self.r = x; self.g = y; self.b = z, in this order, stopping at the first raise
set_channels(w, c, rgb) ==
    LET s1 == clamped_setter(w, c, "r", rgb[1])
        s2 == clamped_setter(s1.w, c, "g", rgb[2])
        s3 == clamped_setter(s2.w, c, "b", rgb[3])
    IN  IF s1.err # "ok" THEN s1 ELSE IF s2.err # "ok" THEN s2 ELSE s3

\* clear_spaces that leaves the cache as it is
keep_spaces(w, c) == w

\* self.spaces = {}
clear_spaces(w, c) == [w EXCEPT !.colors[c].spaces = [k \in {} |-> 0]]

RECURSIVE space_set(_, _, _, _)

\* Color.rgb setter: setattr(self, self.workspace, v)
rgb_set(w, c, v) == space_set(w, c, w.colors[c].workspace, v)

\* The setters of srgb, linear_rgb, rgb8, hls, hsl, yiq
space_set(w, c, name, v) ==
    LET w0 == clear_spaces(w, c) IN
    CASE name = "srgb" ->
           set_channels(w0, c, <<gamma_decode(v[1]), gamma_decode(v[2]), gamma_decode(v[3])>>)
      [] name = "linear_rgb" -> set_channels(w0, c, v)
      [] name = "rgb8" ->
           rgb_set(w0, c, <<RoundDiv(v[1] * Scale, Max8), RoundDiv(v[2] * Scale, Max8),
                            RoundDiv(v[3] * Scale, Max8)>>)
      [] name = "hls" -> rgb_set(w0, c, hls_to_rgb(v[1], v[2], v[3]))
      [] name = "hsl" -> space_set(w0, c, "hls", <<v[1], v[3], v[2]>>)
      [] name = "yiq" -> rgb_set(w0, c, yiq_to_rgb(v[1], v[2], v[3]))

\* ColorSpace_setattr that writes back the tuple as it was before the coordinate
\* was stored
ColorSpace_setattr_old_tuple(w, h, k, v) ==
    LET w1 == [w EXCEPT !.heap[h].coords[k] = v]
        cs == w.heap[h]
    IN  space_set(w1, cs.parent, cs.name, ColorSpace_iter(cs))

\* ColorSpace.__setattr__: on an axis name store the coordinate, then assign
\* tuple(self) to the parent's projection of this name; on any other name store
\* the value in the instance __dict__
ColorSpace_setattr(w, h, k, v) ==
    IF k \in DOMAIN w.heap[h].coords
    THEN LET w1 == [w EXCEPT !.heap[h].coords[k] = v]
             cs == w1.heap[h]
         IN  space_set(w1, cs.parent, cs.name, ColorSpace_iter(cs))
    ELSE Ok([w EXCEPT !.heap[h].attrs =
                [n \in DOMAIN @ \cup {k} |-> IF n = k THEN v ELSE @[n]]], 0)

\* cs.<k> read: a coordinate, else an entry of the instance __dict__, else the
\* end of __getattr__ is reached and None is returned
ColorSpace_getattr(w, h, k) ==
    LET cs == w.heap[h]
    IN  IF k \in DOMAIN cs.coords THEN Ok(w, cs.coords[k])
        ELSE IF k \in DOMAIN cs.attrs THEN Ok(w, cs.attrs[k])
        ELSE Ok(w, "None")

\* ColorSpace.__getitem__: self.coords[k]
ColorSpace_getitem(w, h, k) ==
    LET cs == w.heap[h]
    IN  IF k \in DOMAIN cs.coords THEN Ok(w, cs.coords[k]) ELSE Raise(w, "KeyError")

\* ------------------------------------------------------------ derived values
\* A string is the sequence of its characters.
HexChars == <<"0", "1", "2", "3", "4", "5", "6", "7", "8", "9",
              "a", "b", "c", "d", "e", "f">>
UpperChars == <<"A", "B", "C", "D", "E", "F">>

\* "%02x" % v for v in 0..255
fmt02x(v) == <<HexChars[(v \div 16) + 1], HexChars[(v % 16) + 1]>>

\* "#%02x%02x%02x" % (r, g, b)
fmt_hex(rgb8) == <<"#">> \o fmt02x(rgb8["r"]) \o fmt02x(rgb8["g"]) \o fmt02x(rgb8["b"])

\* Color.hex once the read of self.rgb8 gave g
Color_hex_of(g) == Ok(g.w, fmt_hex(g.w.heap[g.ret].coords))

\* Color.hex: "#%02x%02x%02x" of the coordinates of self.rgb8
Color_hex(w, c) == Color_hex_of(prop_get(w, c, "rgb8"))

\* Color.luminance: r * 0.2126 + g * 0.7152 + b * 0.0722
Color_luminance(w, c) ==
    Ok(w, RoundDiv(2126 * w.colors[c].r + 7152 * w.colors[c].g + 722 * w.colors[c].b,
                   10000))

\* tuple(round(v * 255) for v in srgb)
rgb_tuple(srgb) == [i \in 1..3 |-> round(srgb[i] * Max8, Scale)]

\* Color.css once the read of self.srgb gave g
Color_css_of(c, g) ==
    IF g.w.colors[c].a < Scale
    THEN Ok(g.w, <<"rgba">> \o rgb_tuple(ColorSpace_iter(g.w.heap[g.ret]))
                 \o <<round(g.w.colors[c].a * 100, Scale)>>)
    ELSE Ok(g.w, <<"rgb">> \o rgb_tuple(ColorSpace_iter(g.w.heap[g.ret])))

\* Color.css: the 8-bit values of self.srgb, and alpha to two decimals when
\* alpha is below 1
Color_css(w, c) == Color_css_of(c, prop_get(w, c, "srgb"))

\* ------------------------------------------------------------ construction
NoSpaces == [k \in {} |-> 0]

\* Color.__init__ without descr or kwargs: lines 77-81 (Color() has a = 1.0 and
\* workspace = "srgb")
NewColor(a, workspace) ==
    [r |-> 0, g |-> 0, b |-> 0, a |-> a, workspace |-> workspace, spaces |-> NoSpaces]

\* What `last` records: the operation, the Color it is applied to, the projection
\* name, the axis, the argument, the ColorSpace it is applied to (h), whether that
\* ColorSpace (for a read: the projection read) was in the cache when the
\* operation began (hit), and the outcome (err, and ret: the object returned).
NoLast == [op |-> "init", color |-> 1, name |-> "-", axis |-> "-", arg |-> <<>>,
           h |-> 0, hit |-> FALSE, err |-> "ok", ret |-> 0]

\* The value assigned to alpha: 2.0, outside [0, 1].
AlphaInputs == {2 * Scale}

Init ==
    /\ colors = <<NewColor(Scale, "srgb")>>
    /\ heap = <<>>
    /\ last = NoLast
    /\ nops = 0

\* getattr(self, k) of the loop of lines 87-90, for the keywords that name a
\* projection, rgb, or one of the read-only properties hex, css, luminance
Color_getattr(w, c, k) ==
    CASE k \in Names -> prop_get(w, c, k)
      [] k = "rgb" -> rgb_get(w, c)
      [] k = "hex" -> Color_hex(w, c)
      [] k = "css" -> Color_css(w, c)
      [] k = "luminance" -> Color_luminance(w, c)

\* setattr(self, k, v) of the loop of lines 87-90
Color_setattr(w, c, k, v) ==
    IF k = "rgb" THEN rgb_set(w, c, v) ELSE space_set(w, c, k, v)

\* The end of Color.__init__ when v was assigned to keyword k with outcome s.
\* The ColorSpace objects the read of k created were dropped from the cache by
\* the assignment and no reference to them is left, so they are not kept in the
\* heap.
Color_init_set(w, c, s) ==
    IF s.err = "ok"
    THEN Ok([colors |-> s.w.colors, heap |-> w.heap], c)
    ELSE Raise(w, s.err)

\* The loop of lines 87-90 after getattr(self, k) gave g: a ColorSpace when k
\* names a projection or rgb, and then v is assigned to k; a string or a number
\* for hex, css and luminance, and then nothing is assigned and what the read
\* cached stays cached.
Color_init_got(w, c, k, v, g) ==
    IF g.err # "ok" THEN Raise(w, g.err)
    ELSE IF k \notin Names \cup {"rgb"} THEN Ok(g.w, c)
    ELSE Color_init_set(w, c, Color_setattr(g.w, c, k, v))

\* Color.__init__ with one keyword k = v
Color_init(w, a, workspace, k, v) ==
    Color_init_got(w, Len(w.colors) + 1, k, v,
                   Color_getattr([w EXCEPT !.colors = Append(@, NewColor(a, workspace))],
                                 Len(w.colors) + 1, k))

\* from_hls that drops the alpha argument (the default 1.0 is used)
from_hls_default_alpha(w, h, l, s, a) == Color_init(w, Scale, "srgb", "hls", <<h, l, s>>)

\* Color.from_hls
from_hls(w, h, l, s, a) == Color_init(w, a, "srgb", "hls", <<h, l, s>>)

\* Color.lighter: the three reads of self.hls, then from_hls
lighter(w, c, amt) ==
    LET g == prop_get(w, c, "hls")
        hls == g.w.heap[g.ret].coords
        l == Min2(hls["l"] + amt, Scale)
    IN  from_hls(g.w, hls["h"], l, hls["s"], g.w.colors[c].a)

\* Color.darker
darker(w, c, amt) ==
    LET g == prop_get(w, c, "hls")
        hls == g.w.heap[g.ret].coords
        l == Max2(hls["l"] - amt, 0)
    IN  from_hls(g.w, hls["h"], l, hls["s"], g.w.colors[c].a)

\* ------------------------------------------------------------------ inputs
\* Channel values assigned directly: 0.5 and the out-of-range 1.1 (a value below
\* 0 is asked for through color.rgb, see RgbInputs).
ChannelInputs == {Scale \div 2, Scale + Scale \div 10}

\* The projections assigned as a whole (the setters of the others run when a
\* coordinate of their ColorSpace is mutated).
AssignedNames == {"srgb", "linear_rgb", "hls"}

\* Tuples assigned to a whole projection; for srgb and hls also one whose second
\* resulting channel is out of range.
TupleInputs(name) ==
    CASE name = "srgb" -> {<<Scale \div 2, Scale, 0>>, <<Scale \div 2, 2 * Scale, 0>>}
      [] name = "linear_rgb" -> {<<Scale \div 5, Scale \div 5, Scale \div 5>>}
      [] name = "hls" -> {<<Scale \div 3, Scale \div 4, Scale>>, <<0, 2 * Scale, Scale>>}

\* Triples assigned to color.rgb, the second with an out-of-range component.
RgbInputs == {<<Scale, Scale \div 2, 0>>, <<Scale \div 2, 0, -(Scale \div 10)>>}

\* Values assigned to one coordinate of a ColorSpace.
CoordInputs(name) ==
    IF name = "rgb8" THEN {44, 300} ELSE {Scale \div 4, 2 * Scale}

\* Amounts passed to lighter and darker: the default 0.2.
Amounts == {Scale \div 5}

\* ----------------------------------------------------------------- actions
Step(res, l) ==
    /\ nops < MaxOps
    /\ nops' = nops + 1
    /\ Len(res.w.heap) <= MaxHandles
    /\ Len(res.w.colors) <= MaxColors
    /\ colors' = res.w.colors
    /\ heap' = res.w.heap
    /\ last' = [l EXCEPT !.err = res.err, !.ret = res.ret]

\* x = color.<name>
Read(c, name) ==
    Step(prop_get(World, c, name),
         [NoLast EXCEPT !.op = "read", !.color = c, !.name = name,
                        !.hit = name \in DOMAIN colors[c].spaces])

\* x = color.rgb
ReadRgb(c) ==
    Step(rgb_get(World, c),
         [NoLast EXCEPT !.op = "read_rgb", !.color = c,
                        !.hit = colors[c].workspace \in DOMAIN colors[c].spaces])

\* color.r = v (or g, b)
SetChannel(c, ch, v) ==
    Step(clamped_setter(World, c, ch, v),
         [NoLast EXCEPT !.op = "set_channel", !.color = c, !.axis = ch, !.arg = <<v>>])

\* color.a = v: `a` is a plain attribute
SetAlpha(c, v) ==
    Step(Ok([World EXCEPT !.colors[c].a = v], 0),
         [NoLast EXCEPT !.op = "set_alpha", !.color = c, !.arg = <<v>>])

\* SetWorkspace that also empties the cache
SetWorkspace_clearing(c, ws) ==
    /\ colors[c].workspace # ws
    /\ Step(Ok(clear_spaces([World EXCEPT !.colors[c].workspace = ws], c), 0),
            [NoLast EXCEPT !.op = "set_workspace", !.color = c, !.name = ws])

\* color.workspace = ws
SetWorkspace(c, ws) ==
    /\ colors[c].workspace # ws
    /\ Step(Ok([World EXCEPT !.colors[c].workspace = ws], 0),
            [NoLast EXCEPT !.op = "set_workspace", !.color = c, !.name = ws])

\* color.<name> = v
Assign(c, name, v) ==
    Step(space_set(World, c, name, v),
         [NoLast EXCEPT !.op = "assign", !.color = c, !.name = name, !.arg = v])

\* color.rgb = v
AssignRgb(c, v) ==
    Step(rgb_set(World, c, v),
         [NoLast EXCEPT !.op = "assign_rgb", !.color = c, !.arg = v])

\* cs.<axis> = v, on any ColorSpace ever handed out
Mutate(h, k, v) ==
    Step(ColorSpace_setattr(World, h, k, v),
         [NoLast EXCEPT !.op = "mutate", !.color = heap[h].parent, !.name = heap[h].name,
                        !.axis = k, !.arg = <<v>>, !.h = h,
                        !.hit = /\ heap[h].name \in DOMAIN colors[heap[h].parent].spaces
                                /\ colors[heap[h].parent].spaces[heap[h].name] = h])

\* d = color.lighter(amt)
Lighter(c, amt) ==
    Step(lighter(World, c, amt),
         [NoLast EXCEPT !.op = "lighter", !.color = c, !.arg = <<amt>>])

\* d = color.darker(amt)
Darker(c, amt) ==
    Step(darker(World, c, amt),
         [NoLast EXCEPT !.op = "darker", !.color = c, !.arg = <<amt>>])

ColorIds == 1..Len(colors)
HandleIds == 1..Len(heap)

\* Every operation but the reassignment of `workspace`.
NextOps ==
    \/ \E c \in ColorIds, name \in Names : Read(c, name)
    \/ \E c \in ColorIds : ReadRgb(c)
    \/ \E c \in ColorIds, ch \in {"r", "g", "b"}, v \in ChannelInputs : SetChannel(c, ch, v)
    \/ \E c \in ColorIds, v \in AlphaInputs : SetAlpha(c, v)
    \/ \E c \in ColorIds, name \in AssignedNames : \E v \in TupleInputs(name) :
          Assign(c, name, v)
    \/ \E c \in ColorIds, v \in RgbInputs : AssignRgb(c, v)
    \/ \E h \in HandleIds, i \in 1..3 : \E v \in CoordInputs(heap[h].name) :
          Mutate(h, heap[h].axes[i], v)
    \/ \E c \in ColorIds, amt \in Amounts : Lighter(c, amt)
    \/ \E c \in ColorIds, amt \in Amounts : Darker(c, amt)

Next ==
    \/ NextOps
    \/ \E c \in ColorIds, ws \in Workspaces : SetWorkspace(c, ws)

Spec == Init /\ [][Next]_vars

\* The runs in which `workspace` keeps the value given at construction.
SpecOps == Init /\ [][NextOps]_vars

\* ------------------------------------------------------------- hex strings
\* The value of one character as int(ch, 16) reads it; -1 when it is no digit.
digit(ch) ==
    IF \E i \in 1..Len(HexChars) : HexChars[i] = ch
    THEN (CHOOSE i \in 1..Len(HexChars) : HexChars[i] = ch) - 1
    ELSE IF \E i \in 1..Len(UpperChars) : UpperChars[i] = ch
    THEN (CHOOSE i \in 1..Len(UpperChars) : UpperChars[i] = ch) + 9
    ELSE -1

\* h.strip("#"): every leading and trailing "#" removed
RECURSIVE strip(_)
strip(h) ==
    IF h = <<>> THEN h
    ELSE IF Head(h) = "#" THEN strip(Tail(h))
    ELSE IF h[Len(h)] = "#" THEN strip(SubSeq(h, 1, Len(h) - 1))
    ELSE h

\* int(val, 16) of a string of digits (the caller has excluded the empty string
\* and the non-digits, on which int raises ValueError)
RECURSIVE int16(_)
int16(val) ==
    IF val = <<>> THEN 0
    ELSE 16 * int16(SubSeq(val, 1, Len(val) - 1)) + digit(val[Len(val)])

\* hex_to_rgb: strip "#", reject a length that is no multiple of 3, cut the
\* string in three, double the digits of a 3-digit string, read each part in
\* base 16.  The result is [err, ret].
hex_to_rgb(h0) ==
    LET h == strip(h0)
        i == Len(h) \div 3
        cut == <<SubSeq(h, 1, i), SubSeq(h, i + 1, 2 * i), SubSeq(h, 2 * i + 1, 3 * i)>>
        vals == IF Len(h) = 3 THEN [j \in 1..3 |-> cut[j] \o cut[j]] ELSE cut
    IN  IF Len(h) % 3 # 0 THEN [err |-> "ValueError", ret |-> <<>>]
        ELSE IF \E j \in 1..3 : vals[j] = <<>> \/ \E n \in 1..Len(vals[j]) : digit(vals[j][n]) < 0
        THEN [err |-> "ValueError", ret |-> <<>>]
        ELSE [err |-> "ok", ret |-> [j \in 1..3 |-> int16(vals[j])]]

\* Color.__init__ with descr and no keyword: a non-empty descr that starts with
\* "#" is assigned, parsed, to rgb8; any other descr is left unread.
Color_init_descr(w, descr, a, workspace) ==
    LET c == Len(w.colors) + 1
        w1 == [w EXCEPT !.colors = Append(@, NewColor(a, workspace))]
        p == hex_to_rgb(descr)
        s == space_set(w1, c, "rgb8", p.ret)
    IN  IF descr # <<>> /\ Head(descr) = "#"
        THEN IF p.err # "ok" THEN Raise(w, p.err)
             ELSE IF s.err # "ok" THEN Raise(w, s.err)
             ELSE Ok(s.w, c)
        ELSE Ok(w1, c)

\* The digits given to the constructor, with and without "#" in front: the
\* 3-digit strings over three digits, four 6-digit strings, strings of 0, 1, 2,
\* 4, 9 and 12 digits, and one with a character that is no digit.
HexBodies ==
    {<<x, y, z>> : x \in {"0", "f"}, y \in {"0", "a", "F"}, z \in {"0", "8", "f"}}
    \cup {<<"0", "a", "0", "b", "c", "c">>, <<"A", "B", "C", "D", "E", "F">>,
          <<"8", "0", "8", "0", "8", "0">>, <<"f", "e", "0", "1", "a", "7">>}
    \cup {<<>>, <<"f">>, <<"f", "f">>, <<"f", "f", "f", "f">>,
          <<"0", "f", "f", "0", "f", "f", "0", "f", "f">>,
          <<"1", "2", "3", "4", "5", "6", "7", "8", "9">>,
          <<"0", "0", "f", "f", "0", "0", "f", "f", "0", "0", "f", "f">>,
          <<"g", "g", "g">>}
HexInputs == HexBodies \cup {<<"#">> \o h : h \in HexBodies}

\* The state before the first Color is constructed.
NoColor == [NoLast EXCEPT !.op = "none", !.color = 0]

InitHex ==
    /\ colors = <<>>
    /\ heap = <<>>
    /\ last = NoColor
    /\ nops = 0

\* c = Color(descr, workspace=ws), the first Color of the run
Construct(descr, ws) ==
    /\ colors = <<>>
    /\ Step(Color_init_descr(World, descr, Scale, ws),
            [NoLast EXCEPT !.op = "construct", !.name = ws, !.arg = descr])

\* x = color.hex
ReadHex(c) ==
    Step(Color_hex(World, c),
         [NoLast EXCEPT !.op = "hex", !.color = c,
                        !.hit = "rgb8" \in DOMAIN colors[c].spaces])

NextHex ==
    \/ \E descr \in HexInputs, ws \in Workspaces : Construct(descr, ws)
    \/ \E c \in ColorIds : ReadHex(c)
    \/ \E c \in ColorIds, name \in Names : Read(c, name)

\* The runs that construct a Color from a string and read it.
SpecHex == InitHex /\ [][NextHex]_vars

\* The string is 3 or 6 hexadecimal digits once "#" is stripped.
ValidHex(descr) ==
    LET h == strip(descr)
    IN  Len(h) \in {3, 6} /\ \A n \in 1..Len(h) : digit(h[n]) >= 0

\* The normalized form of a valid string: "#" and the six digits in lower case,
\* the digits of a 3-digit string doubled.
normalized(descr) ==
    LET h == strip(descr)
        six == IF Len(h) = 3 THEN <<h[1], h[1], h[2], h[2], h[3], h[3]>> ELSE h
    IN  <<"#">> \o [n \in 1..6 |-> HexChars[digit(six[n]) + 1]]

\* -------------------------------------------------- names that are no axis
\* Names asked of a ColorSpace that are not among its axes.
UnknownNames == {"x", "a"}

\* x = cs.<k>
GetAttr(h, k) ==
    Step(ColorSpace_getattr(World, h, k),
         [NoLast EXCEPT !.op = "getattr", !.color = heap[h].parent, !.name = heap[h].name,
                        !.axis = k, !.h = h])

\* x = cs[k]
GetItem(h, k) ==
    Step(ColorSpace_getitem(World, h, k),
         [NoLast EXCEPT !.op = "getitem", !.color = heap[h].parent, !.name = heap[h].name,
                        !.axis = k, !.h = h])

NextAxis ==
    \/ \E c \in ColorIds, name \in Names : Read(c, name)
    \/ \E h \in HandleIds, k \in {"r", "h", "y"} \cup UnknownNames : GetAttr(h, k)
    \/ \E h \in HandleIds, k \in {"r", "h", "y"} \cup UnknownNames : GetItem(h, k)
    \/ \E h \in HandleIds, k \in {"r", "h", "y"} \cup UnknownNames :
          \E v \in CoordInputs(heap[h].name) : Mutate(h, k, v)

\* The runs that read and set attributes of ColorSpace objects by any name.
SpecAxis == Init /\ [][NextAxis]_vars

\* --------------------------------------------------------------- round trip
\* Channel values of the Colors a round trip starts from: 0, the first value of
\* the power-law piece of the gamma curve, 1/4, 1/2, 0.735 and 1.
GridInputs == {0, (31308 * Scale) \div 10000000 + 1, Scale \div 4, Scale \div 2,
               3000, Scale}

\* The Color that Color(linear_rgb=(r, g, b), workspace=ws) constructs.
InitRound ==
    /\ \E ws \in Workspaces, r \in GridInputs, g \in GridInputs, b \in GridInputs :
          colors = Color_init([colors |-> <<>>, heap |-> <<>>], Scale, ws,
                              "linear_rgb", <<r, g, b>>).w.colors
    /\ heap = <<>>
    /\ last = NoLast
    /\ nops = 0

\* color.<name> = tuple(color.<name>): the read, then the setter on the tuple
\* read.  The ColorSpace objects a miss creates are dropped from the cache by the
\* setter and nothing else refers to them.
round_trip(w, c, name) ==
    LET g == prop_get(w, c, name)
        s == space_set(g.w, c, name, ColorSpace_iter(g.w.heap[g.ret]))
    IN  [w |-> [colors |-> s.w.colors, heap |-> w.heap], err |-> s.err,
         ret |-> ColorSpace_iter(g.w.heap[g.ret])]

RoundTrip(c, name) ==
    Step(round_trip(World, c, name),
         [NoLast EXCEPT !.op = "round_trip", !.color = c, !.name = name,
                        !.hit = name \in DOMAIN colors[c].spaces])

NextRound == \E c \in ColorIds, name \in Names : RoundTrip(c, name)

\* The runs that assign to the projections of a Color the tuples read from them.
SpecRound == InitRound /\ [][NextRound]_vars

Dist(x, y) == IF x >= y THEN x - y ELSE y - x

\* The coordinates of projection `name` of Color c in world w, derived afresh
\* from the channels.
Fresh(w, c, name) ==
    LET g == prop_get(clear_spaces(w, c), c, name)
    IN  g.w.heap[g.ret].coords

\* The tolerance of a round trip in fixed point: half of an 8-bit step.
Tolerance == Scale \div (2 * Max8)

\* --------------------------------------------------------------- hls and hsl
\* Tuples assigned to hls and to hsl: the same colour in both orders, and one
\* whose lightness is out of range.
HslInputs(name) ==
    IF name = "hls" THEN TupleInputs("hls")
    ELSE {<<Scale \div 3, Scale, Scale \div 4>>, <<0, Scale, 2 * Scale>>}

NextHsl ==
    \/ \E c \in ColorIds, name \in {"hls", "hsl"} : Read(c, name)
    \/ \E c \in ColorIds, name \in {"hls", "hsl"} : \E v \in HslInputs(name) :
          Assign(c, name, v)
    \/ \E h \in HandleIds, i \in 1..3 : \E v \in CoordInputs(heap[h].name) :
          Mutate(h, heap[h].axes[i], v)
    \/ \E c \in ColorIds, ch \in {"r", "g", "b"}, v \in ChannelInputs : SetChannel(c, ch, v)
    \/ \E c \in ColorIds, ws \in Workspaces : SetWorkspace(c, ws)

\* The runs that read and write a Color through hls and hsl.
SpecHsl == Init /\ [][NextHsl]_vars

\* ------------------------------------------------------------ derived values
\* The integer nearest to the square root of n, found between lo and hi.
RECURSIVE sqrt(_, _, _)
sqrt(n, lo, hi) ==
    IF hi - lo <= 1
    THEN IF 4 * n < (2 * lo + 1) * (2 * lo + 1) THEN lo ELSE hi
    ELSE LET mid == (lo + hi) \div 2
         IN  IF mid * mid <= n THEN sqrt(n, mid, hi) ELSE sqrt(n, lo, mid)

\* The k-th term of the sums of distance and l1_distance: v - other_space[k]
diff(w, h, other, k) == w.heap[h].coords[k] - w.heap[other].coords[k]

\* ColorSpace.distance: math.sqrt of the sum of the squares, over the
\* coordinates of self, of the differences to the projection of the same name
\* of the other Color (which is read, and cached, first)
ColorSpace_distance(w, h, d) ==
    LET g == prop_get(w, d, w.heap[h].name)
        ax == w.heap[h].axes
        sum == diff(g.w, h, g.ret, ax[1]) * diff(g.w, h, g.ret, ax[1])
               + diff(g.w, h, g.ret, ax[2]) * diff(g.w, h, g.ret, ax[2])
               + diff(g.w, h, g.ret, ax[3]) * diff(g.w, h, g.ret, ax[3])
    IN  Ok(g.w, sqrt(sum, 0, 4 * Scale))

\* ColorSpace.l1_distance: the sum of the absolute differences
ColorSpace_l1_distance(w, h, d) ==
    LET g == prop_get(w, d, w.heap[h].name)
        ax == w.heap[h].axes
        abs(x) == IF x < 0 THEN -x ELSE x
    IN  Ok(g.w, abs(diff(g.w, h, g.ret, ax[1])) + abs(diff(g.w, h, g.ret, ax[2]))
                + abs(diff(g.w, h, g.ret, ax[3])))

\* Two Colors: Color(linear_rgb=(0.5, 0.25, 0), a=a, workspace=ws) and
\* Color(linear_rgb=(1, 1, 1), workspace=ws2).
InitReads ==
    /\ \E a \in {Scale, Scale \div 2}, ws \in Workspaces, ws2 \in Workspaces :
          colors = Color_init(Color_init([colors |-> <<>>, heap |-> <<>>], a, ws,
                                         "linear_rgb", <<Scale \div 2, Scale \div 4, 0>>).w,
                              Scale, ws2, "linear_rgb", <<Scale, Scale, Scale>>).w.colors
    /\ heap = <<>>
    /\ last = NoLast
    /\ nops = 0

\* x = color.css
ReadCss(c) ==
    Step(Color_css(World, c),
         [NoLast EXCEPT !.op = "css", !.color = c,
                        !.hit = "srgb" \in DOMAIN colors[c].spaces])

\* x = color.luminance
ReadLuminance(c) ==
    Step(Color_luminance(World, c), [NoLast EXCEPT !.op = "luminance", !.color = c])

\* x = cs.distance(other)
Distance(h, d) ==
    Step(ColorSpace_distance(World, h, d),
         [NoLast EXCEPT !.op = "distance", !.color = d, !.name = heap[h].name, !.h = h,
                        !.hit = heap[h].name \in DOMAIN colors[d].spaces])

\* x = cs.l1_distance(other)
L1Distance(h, d) ==
    Step(ColorSpace_l1_distance(World, h, d),
         [NoLast EXCEPT !.op = "l1_distance", !.color = d, !.name = heap[h].name, !.h = h,
                        !.hit = heap[h].name \in DOMAIN colors[d].spaces])

NextReads ==
    \/ \E c \in ColorIds, name \in Names : Read(c, name)
    \/ \E c \in ColorIds : ReadRgb(c)
    \/ \E c \in ColorIds : ReadHex(c)
    \/ \E c \in ColorIds : ReadCss(c)
    \/ \E c \in ColorIds : ReadLuminance(c)
    \/ \E h \in HandleIds, d \in ColorIds : Distance(h, d)
    \/ \E h \in HandleIds, d \in ColorIds : L1Distance(h, d)

\* The runs that only read: projections, derived values and distances.
SpecReads == InitReads /\ [][NextReads]_vars

\* The operations that read.
IsRead(l) ==
    l.op \in {"read", "read_rgb", "hex", "css", "luminance", "distance", "l1_distance"}

\* ------------------------------------------------- any projection as workspace
\* Color(linear_rgb=v, workspace=ws), ws the name of any projection.
InitChain ==
    /\ \E ws \in Names, v \in {<<Scale \div 2, Scale \div 4, 0>>, <<Scale, Scale, Scale>>} :
          colors = Color_init([colors |-> <<>>, heap |-> <<>>], Scale, ws,
                              "linear_rgb", v).w.colors
    /\ heap = <<>>
    /\ last = NoLast
    /\ nops = 0

NextChain ==
    \/ \E c \in ColorIds, name \in Names : Read(c, name)
    \/ \E c \in ColorIds : ReadRgb(c)

\* The runs that read a Color whose workspace names any of the projections.
SpecChain == InitChain /\ [][NextChain]_vars

\* The projections whose function reads self.rgb, directly or through hls.
ReadsRgb == {"rgb8", "hls", "hsl", "yiq"}

\* ------------------------------------------------- construction, then writes
\* The keywords given to the constructor: projections, rgb, and the read-only
\* properties hex, css and luminance.
KwNames == AssignedNames \cup {"rgb", "hex", "css", "luminance"}

\* The value given with keyword k.
KwInputs(k) ==
    IF k \in AssignedNames THEN TupleInputs(k)
    ELSE IF k = "rgb" THEN RgbInputs
    ELSE {<<"#", "f", "f", "f">>}

\* The strings given to the constructor as descr: none, a colour, a string of
\* four digits.
NewDescrs == {<<>>, <<"#", "0", "a", "0">>, <<"#", "f", "f", "f", "f">>}

\* c = Color(<k>=v, workspace=ws), the first Color of the run
ConstructKw(k, v, ws) ==
    /\ colors = <<>>
    /\ Step(Color_init(World, Scale, ws, k, v),
            [NoLast EXCEPT !.op = "construct_kw", !.name = k, !.arg = v])

NextNew ==
    \/ \E descr \in NewDescrs, ws \in Workspaces : Construct(descr, ws)
    \/ \E k \in KwNames, ws \in Workspaces : \E v \in KwInputs(k) : ConstructKw(k, v, ws)
    \/ \E c \in ColorIds, name \in Names : Read(c, name)
    \/ \E c \in ColorIds, name \in AssignedNames : \E v \in TupleInputs(name) :
          Assign(c, name, v)
    \/ \E c \in ColorIds, v \in RgbInputs : AssignRgb(c, v)
    \/ \E h \in HandleIds, i \in 1..3 : \E v \in CoordInputs(heap[h].name) :
          Mutate(h, heap[h].axes[i], v)

\* The runs that construct a Color in any way, then read and write it.
SpecNew == InitHex /\ [][NextNew]_vars

\* Every entry of every cache is stored under the name of its ColorSpace, whose
\* parent is the Color of the cache.
KeysAndParents ==
    \A c \in ColorIds : \A k \in DOMAIN colors[c].spaces :
        /\ heap[colors[c].spaces[k]].name = k
        /\ heap[colors[c].spaces[k]].parent = c

\* ------------------------------------------------- what the claims refer to
\* The coordinates a projection would have if derived afresh from the channels
\* of Color c: the read of `name` with nothing cached.
Rederive(c, name) ==
    LET g == prop_get(clear_spaces(World, c), c, name)
    IN  g.w.heap[g.ret].coords

\* A triple assigned to `rgb`, carried to the canonical channels: the setter of
\* the workspace projection.
workspace_back(ws, v) ==
    IF ws = "srgb" THEN <<gamma_decode(v[1]), gamma_decode(v[2]), gamma_decode(v[3])>> ELSE v

\* The write-back formula of each space: the canonical channels its setter
\* computes from the full coordinate tuple v, under workspace ws.
write_back(ws, name, v) ==
    CASE name = "srgb" -> <<gamma_decode(v[1]), gamma_decode(v[2]), gamma_decode(v[3])>>
      [] name = "linear_rgb" -> v
      [] name = "rgb8" ->
           workspace_back(ws, <<RoundDiv(v[1] * Scale, Max8), RoundDiv(v[2] * Scale, Max8),
                                RoundDiv(v[3] * Scale, Max8)>>)
      [] name = "hls" -> workspace_back(ws, hls_to_rgb(v[1], v[2], v[3]))
      [] name = "hsl" -> workspace_back(ws, hls_to_rgb(v[1], v[3], v[2]))
      [] name = "yiq" -> workspace_back(ws, yiq_to_rgb(v[1], v[2], v[3]))

InRange(x) == 0 <= x /\ x <= Scale
Channels(col) == <<col.r, col.g, col.b>>

\* The tuple of ColorSpace cs with axis k replaced by v, in axes order.
TupleWith(cs, k, v) == [i \in 1..Len(cs.axes) |-> IF cs.axes[i] = k THEN v ELSE cs.coords[cs.axes[i]]]

\* The steps that write, or try to write, the channels of a Color.
IsWrite(l) == l.op \in {"set_channel", "assign", "assign_rgb", "mutate"}

\* The channel triple the operation recorded in l asks for, given the state it
\* starts from.
Asked(l, cols, hp) ==
    LET col == cols[l.color] IN
    CASE l.op = "set_channel" ->
           <<IF l.axis = "r" THEN l.arg[1] ELSE col.r,
             IF l.axis = "g" THEN l.arg[1] ELSE col.g,
             IF l.axis = "b" THEN l.arg[1] ELSE col.b>>
      [] l.op = "assign" -> write_back(col.workspace, l.name, l.arg)
      [] l.op = "assign_rgb" -> workspace_back(col.workspace, l.arg)
      [] l.op = "mutate" ->
           write_back(col.workspace, l.name, TupleWith(hp[l.h], l.axis, l.arg[1]))

\* ------------------------------------------------------------------ claims

\* C1: at every point between operations (reads, direct sets of r/g/b,
\* whole-projection assignments, coordinate mutations), each entry of `spaces`
\* holds the coordinates that deriving the projection afresh from the current
\* channels yields.
C1_CacheConsistent ==
    \A c \in ColorIds : \A name \in DOMAIN colors[c].spaces :
        heap[colors[c].spaces[name]].coords = Rederive(c, name)

\* C2: a successful direct set of r, g or b leaves the projection cache empty, so
\* that no projection cached before the set is returned on the next read.
C2_DirectSetClearsCache ==
    [][(last'.op = "set_channel" /\ last'.err = "ok")
         => colors'[last'.color].spaces = NoSpaces]_vars

\* C3: a successful mutation of a coordinate of a ColorSpace leaves the parent's
\* projection cache empty (the entry of the mutated ColorSpace included); the
\* next read of any projection is a miss and returns a new ColorSpace.
C3_MutationClearsCache ==
    [][/\ (last'.op = "mutate" /\ last'.err = "ok")
            => colors'[last'.color].spaces = NoSpaces
       /\ (last'.op = "read" /\ ~last'.hit)
            => /\ last'.ret > Len(heap)
               /\ colors'[last'.color].spaces[last'.name] = last'.ret]_vars

\* C3 witness: a Color with srgb, hls and hsl cached (one read of hsl), then a
\* successful mutation of a coordinate of one of the three.
C3_Witness ==
    /\ last.op = "mutate" /\ last.err = "ok" /\ last.hit
    /\ nops = 2 /\ Len(heap) = 3
    /\ colors[last.color].spaces = NoSpaces

\* C4: an assignment that fails leaves the Color as it was: r, g, b and the
\* cache contents are unchanged.
C4_NoPartialFailure ==
    [][(IsWrite(last') /\ last'.err # "ok")
         => /\ Channels(colors'[last'.color]) = Channels(colors[last'.color])
            /\ colors'[last'.color].spaces = colors[last'.color].spaces]_vars

C6_AlphaRange == \A c \in ColorIds : InRange(colors[c].a)

\* C7: after a successful cs.<axis> = v, on a ColorSpace still cached or not,
\* the parent's channels are the write-back formula of the space applied to the
\* whole tuple of cs with <axis> replaced by v, and cs holds v at <axis>.
C7_WriteBackFullTuple ==
    [][(last'.op = "mutate" /\ last'.err = "ok")
         => /\ Channels(colors'[last'.color]) = Asked(last', colors, heap)
            /\ ColorSpace_iter(heap'[last'.h])
                 = TupleWith(heap[last'.h], last'.axis, last'.arg[1])]_vars

\* C7 witness: a successful mutation through a ColorSpace that was no longer the
\* cached instance, on a parent whose channels were assigned in between.
C7_Witness ==
    /\ last.op = "mutate" /\ last.err = "ok" /\ ~last.hit
    /\ Channels(colors[last.color]) # <<0, 0, 0>>

\* C8: a read on a miss computes the projection from the current channels,
\* stores it under the space's name and returns it; a read on a hit returns the
\* cached instance and changes nothing.
C8_LazyRead ==
    [][last'.op = "read" =>
         IF last'.hit
         THEN /\ last'.ret = colors[last'.color].spaces[last'.name]
              /\ colors' = colors /\ heap' = heap
         ELSE /\ last'.ret > Len(heap)
              /\ colors'[last'.color].spaces[last'.name] = last'.ret
              /\ heap'[last'.ret].coords = Rederive(last'.color, last'.name)]_vars

C10_LighterDarkerPure ==
    [][last'.op \in {"lighter", "darker"} =>
         /\ last'.err = "ok"
         /\ last'.ret = Len(colors) + 1 /\ Len(colors') = Len(colors) + 1
         /\ \A c \in ColorIds :
               /\ Channels(colors'[c]) = Channels(colors[c])
               /\ colors'[c].a = colors[c].a
         /\ colors'[last'.ret].a = colors[last'.color].a]_vars

\* C10 witness: darker applied to a non-black Color of alpha 2.0.
C10_Witness ==
    /\ last.op = "darker" /\ last.err = "ok"
    /\ colors[last.color].r = Scale \div 2
    /\ colors[last.color].a = 2 * Scale
    /\ colors[last.ret].a = 2 * Scale
    /\ Channels(colors[last.ret]) # Channels(colors[last.color])

\* C11: a Color constructed from a valid hex string written without the leading
\* "#" has the channels of the Color constructed from the same digits with "#"
\* in front, and a 3-digit string gives the channels of its doubled 6-digit form.
C11_HexWithOrWithoutHash ==
    [][(last'.op = "construct" /\ ValidHex(last'.arg)) =>
         LET hashed == Color_init_descr(World, normalized(last'.arg), Scale, last'.name)
         IN  /\ last'.err = "ok" /\ hashed.err = "ok"
             /\ Channels(colors'[last'.ret]) = Channels(hashed.w.colors[hashed.ret])]_vars

\* C12: constructing a Color from "#" followed by a number of hex digits other
\* than 3 or 6 (0, 9 and 12 included) fails with the invalid-format error and no
\* Color is produced.
C12_HexLength ==
    [][(/\ last'.op = "construct"
        /\ last'.arg # <<>> /\ Head(last'.arg) = "#"
        /\ Len(strip(last'.arg)) \notin {3, 6}
        /\ \A n \in 1..Len(strip(last'.arg)) : digit(strip(last'.arg)[n]) >= 0)
         => /\ last'.err = "ValueError"
            /\ colors' = colors]_vars

\* C13: for every valid 3- or 6-digit hex input s, Color(s).hex is the
\* normalized form of s, and the rgb8 triple read back is the triple parsed
\* from s.
C13_HexRoundTrip ==
    [][/\ (last'.op = "hex" /\ last.op = "construct" /\ last.err = "ok"
            /\ ValidHex(last.arg))
           => last'.ret = normalized(last.arg)
       /\ (last'.op = "read" /\ last'.name = "rgb8" /\ last.op = "construct"
            /\ last.err = "ok" /\ ValidHex(last.arg))
           => ColorSpace_iter(heap'[last'.ret]) = hex_to_rgb(last.arg).ret]_vars

\* C14: reading or setting, on a ColorSpace, a name that is not one of its axes
\* fails with an error and leaves the ColorSpace and its parent Color as they
\* were: no value is returned and the name is not stored.
C14_UnknownAxis ==
    [][(/\ last'.op \in {"getattr", "getitem", "mutate"}
        /\ last'.axis \notin DOMAIN heap[last'.h].coords)
         => /\ last'.err # "ok"
            /\ heap' = heap /\ colors' = colors]_vars

C16_HslMirrorsHls ==
    /\ [](\A c \in ColorIds : "hsl" \in DOMAIN colors[c].spaces =>
            /\ "hls" \in DOMAIN colors[c].spaces
            /\ LET hsl == heap[colors[c].spaces["hsl"]]
                   hls == heap[colors[c].spaces["hls"]]
               IN  /\ hsl.axes = <<"h", "s", "l">>
                   /\ \A k \in {"h", "l", "s"} : hsl.coords[k] = hls.coords[k])
    /\ [][/\ (last'.op = "read" /\ last'.name = "hsl")
               => colors'[last'.color].spaces["hsl"] = last'.ret
          /\ (last'.op \in {"assign", "mutate"} /\ last'.name = "hsl") =>
               LET v == IF last'.op = "assign" THEN last'.arg
                        ELSE TupleWith(heap[last'.h], last'.axis, last'.arg[1])
                   st == space_set(World, last'.color, "hls", <<v[1], v[3], v[2]>>)
               IN  /\ last'.err = st.err
                   /\ Channels(colors'[last'.color]) = Channels(st.w.colors[last'.color])]_vars

\* C16 witness: a coordinate of the cached hsl projection of a non-black Color
\* was mutated with success, lightness and saturation being different.
C16_Witness ==
    /\ last.op = "mutate" /\ last.name = "hsl" /\ last.hit /\ last.err = "ok"
    /\ nops = 3
    /\ heap[last.h].coords["s"] # heap[last.h].coords["l"]
    /\ Channels(colors[last.color]) # <<0, 0, 0>>
    /\ colors[last.color].r # colors[last.color].g

\* C17: a read of a projection, of rgb, hex, css or luminance, or a call of
\* distance or l1_distance, raises nothing and leaves r, g, b, alpha and
\* workspace of every Color unchanged; every cache entry there was is still
\* there, the same ColorSpace with the same contents; what is added to a cache
\* is new ColorSpace objects of that Color; and after a distance the other Color
\* has the projection of the receiver's name cached.
C17_ReadsChangeNothing ==
    [][IsRead(last') =>
         /\ last'.err = "ok"
         /\ Len(colors') = Len(colors)
         /\ \A c \in ColorIds :
               /\ Channels(colors'[c]) = Channels(colors[c])
               /\ colors'[c].a = colors[c].a
               /\ colors'[c].workspace = colors[c].workspace
               /\ DOMAIN colors[c].spaces \subseteq DOMAIN colors'[c].spaces
               /\ \A k \in DOMAIN colors[c].spaces : colors'[c].spaces[k] = colors[c].spaces[k]
               /\ \A k \in DOMAIN colors'[c].spaces \ DOMAIN colors[c].spaces :
                     /\ colors'[c].spaces[k] > Len(heap)
                     /\ c = last'.color
         /\ SubSeq(heap', 1, Len(heap)) = heap
         /\ last'.op \in {"distance", "l1_distance"}
               => last'.name \in DOMAIN colors'[last'.color].spaces]_vars

\* C17 witness: a distance from a cached srgb projection of one Color to another
\* Color, non-black, that had linear_rgb cached and not srgb; now it has both.
C17_Witness ==
    /\ last.op = "distance" /\ ~last.hit /\ last.name = "srgb"
    /\ heap[last.h].parent # last.color
    /\ DOMAIN colors[last.color].spaces = {"linear_rgb", "srgb"}
    /\ colors[last.color].spaces["srgb"] = Len(heap)
    /\ last.ret > 0

\* C18: assigning `workspace` changes nothing but workspace: r, g, b, alpha
\* and the cache of every Color and every ColorSpace are as before; and a read
\* that finds its projection cached, computed under the previous workspace or
\* not, returns that instance and changes nothing.
C18_WorkspaceKeepsCache ==
    [][/\ last'.op = "set_workspace" =>
            /\ last'.err = "ok"
            /\ heap' = heap
            /\ colors'[last'.color].workspace = last'.name
            /\ colors' = [colors EXCEPT ![last'.color].workspace = last'.name]
       /\ (last'.op = "read" /\ last'.hit) =>
            /\ last'.ret = colors[last'.color].spaces[last'.name]
            /\ colors' = colors /\ heap' = heap]_vars

\* C18 witness: the workspace was reassigned on a Color that has hls cached,
\* with coordinates that a fresh derivation under the new workspace would not
\* give.
C18_Witness ==
    /\ last.op = "set_workspace" /\ last.name = "linear_rgb"
    /\ "hls" \in DOMAIN colors[last.color].spaces
    /\ heap[colors[last.color].spaces["hls"]].coords # Rederive(last.color, "hls")
    /\ Channels(colors[last.color]) = <<Scale \div 5, Scale \div 5, Scale \div 5>>

\* C19: under workspace srgb or linear_rgb a read of any projection, or of rgb,
\* returns; three nested reads are enough for it (hsl, hls, the workspace
\* projection), at most three ColorSpace objects are created, and the
\* projection read, hls under hsl, and the workspace projection under rgb8, hls,
\* hsl and yiq are cached afterwards.  Under a workspace that names rgb8, hls,
\* hsl or yiq, a read of one of these four that is not cached (and so a read of
\* rgb) never returns: the nesting runs into RecursionError, and nothing is
\* cached.
C19_ReadsTerminate ==
    [][last'.op \in {"read", "read_rgb"} =>
         LET c == last'.color
             ws == colors[c].workspace
             name == IF last'.op = "read_rgb" THEN ws ELSE last'.name
         IN  IF ws \in Workspaces
             THEN /\ last'.err = "ok"
                  /\ prop_get_at(World, c, name, RecursionLimit - 3).err = "ok"
                  /\ Len(heap') <= Len(heap) + 3
                  /\ name \in DOMAIN colors'[c].spaces
                  /\ name \in ReadsRgb => ws \in DOMAIN colors'[c].spaces
                  /\ name = "hsl" => "hls" \in DOMAIN colors'[c].spaces
             ELSE (name \in ReadsRgb /\ name \notin DOMAIN colors[c].spaces)
                     => /\ last'.err = "RecursionError"
                        /\ colors' = colors /\ heap' = heap]_vars

\* C19 witness: hsl read first on a Color under workspace linear_rgb: three
\* ColorSpace objects, for linear_rgb, hls and hsl.
C19_Witness ==
    /\ last.op = "read" /\ last.name = "hsl" /\ last.err = "ok" /\ nops = 1
    /\ colors[1].workspace = "linear_rgb"
    /\ DOMAIN colors[1].spaces = {"linear_rgb", "hls", "hsl"}
    /\ Len(heap) = 3

====
